---- MODULE Spec2Model ----
(***************************************************************************)
(* The user records view of src/ui/src/components/Home.vue: its reactive   *)
(* state, its handlers (each split at the awaits of a network response),   *)
(* the pending hide timeouts of showPopup, and the remote collection the   *)
(* four REST calls talk to.                                                *)
(*                                                                         *)
(* A text that the code builds by concatenation (the notification message) *)
(* is a sequence of tokens, the empty text being << >>; names and emails   *)
(* are atomic strings, "" being the empty one.                             *)
(***************************************************************************)
EXTENDS Integers, Sequences, FiniteSets, Bags, TLC

\* ------------------------------------------------------------- bounds
\* Add, Update and Yes clicks that send a request, in one run (the other
\* clicks and the keystrokes are not limited)
MaxRequests == 1

\* ---------------------------------------------------------- constants
\* setTimeout(..., 2000): the hide delay, in seconds (one Tick is a second)
Delay == 2
\* editingId / confirmUserId: number | null
Null == -1

Names == {"", "a"}
Emails == {"", "x"}

EmptyUser == [id |-> 0, name |-> "", email |-> ""]

\* ------------------------------------------------------ message texts
Warn == <<"(warning) ">>
MsgFillAll == <<"Please fill all fields">>
MsgAdded == <<"(ok) User added successfully!">>
MsgUpdated == <<"(ok) User updated successfully!">>
MsgDeleted == <<"(bin) User deleted successfully!">>
MsgCancelled == <<"(x) Edit cancelled">>
FallbackFetch == <<"Failed to fetch users">>
FallbackAdd == <<"Failed to add user">>
FallbackUpdate == <<"Failed to update user">>
FallbackDelete == <<"Failed to delete user">>
\* err.message of the TypeError a rejected fetch() carries
NetMsg == <<"NetworkError when attempting to fetch resource.">>
\* err.message of the SyntaxError a rejected res.json() carries
SyntaxMsg == <<"Unexpected end of JSON input">>

\* --------------------------------------------------- response bodies
\* An error body: parses says whether res.json() resolves; entries are the
\* top-level members of the parsed object, in order, each a string
\* (isArr FALSE, strs its one string) or an array of strings.
BodyUnparseable == [parses |-> FALSE, entries |-> << >>]
BodyEmptyObject == [parses |-> TRUE, entries |-> << >>]
BodyDetail ==
  [parses |-> TRUE,
   entries |-> <<[key |-> "detail", isArr |-> FALSE, strs |-> <<"Not found.">>]>>]
BodyFieldErrors ==
  [parses |-> TRUE,
   entries |-> <<[key |-> "email", isArr |-> TRUE, strs |-> <<"already exists">>]>>]

ErrBodies == {BodyUnparseable, BodyEmptyObject, BodyDetail, BodyFieldErrors}

\* a string as a text
Tok(s) == IF s = "" THEN << >> ELSE <<s>>

\* Object.values(errData).flat(): strings stay, arrays are spliced in
RECURSIVE FlatValues(_)
FlatValues(entries) ==
  IF entries = << >> THEN << >>
  ELSE Head(entries).strs \o FlatValues(Tail(entries))

\* Array.prototype.join(', ')
RECURSIVE Join(_)
Join(strs) ==
  IF strs = << >> THEN << >>
  ELSE IF Len(strs) = 1 THEN Tok(strs[1])
  ELSE Tok(Head(strs)) \o <<", ">> \o Join(Tail(strs))

\* errData.detail: the member named detail, undefined (the empty text) if none
RECURSIVE DetailOf(_)
DetailOf(entries) ==
  IF entries = << >> THEN << >>
  ELSE IF Head(entries).key = "detail" THEN Join(Head(entries).strs)
  ELSE DetailOf(Tail(entries))

\* a || b on texts: the empty text is falsy
OrElse(a, b) == IF a = << >> THEN b ELSE a

NoResp == [kind |-> "none"]
NetFailure == [kind |-> "net"]
OkResp(body) == [kind |-> "ok", body |-> body]
HttpError(body) == [kind |-> "http", body |-> body]


\* ---------------------------------------------- deriving the error text
\* fetchUsers / deleteUser: fetch() rejected, res.json() rejected, or
\* errData.detail || fallback
ErrTextDetail(resp, fallback) ==
  IF resp.kind = "net" THEN NetMsg
  ELSE IF ~resp.body.parses THEN SyntaxMsg
  ELSE OrElse(DetailOf(resp.body.entries), fallback)

\* addUser / updateUser reading errData.detail only, as fetchUsers does
ErrTextFlatDetailOnly(resp, fallback) ==
  IF resp.kind = "net" THEN NetMsg
  ELSE IF ~resp.body.parses THEN SyntaxMsg
  ELSE OrElse(DetailOf(resp.body.entries), fallback)

\* addUser / updateUser: fetch() rejected, res.json() rejected, or
\* Object.values(errData).flat().join(', ') || fallback
ErrTextFlat(resp, fallback) ==
  IF resp.kind = "net" THEN NetMsg
  ELSE IF ~resp.body.parses THEN SyntaxMsg
  ELSE OrElse(Join(FlatValues(resp.body.entries)), fallback)

\* showPopup(`(warning) ${err.message}`, 'error') of the catch blocks
ErrPopup(text) == [msg |-> Warn \o text, type |-> "error"]
OkPopup(text) == [msg |-> text, type |-> "success"]

\* ---------------------------------------------------------------- state
VARIABLES
  users,          \* ref<User[]>: the displayed list
  newUser,        \* ref<User>: the draft
  isEditing,      \* ref(false)
  editingId,      \* ref<number | null>
  message,        \* ref(''): the notification text
  showMessage,    \* ref(false)
  messageType,    \* ref<'success' | 'error'>
  confirmVisible, \* ref(false)
  confirmUserId,  \* ref<number | null>
  timers,         \* the pending setTimeout hides, each by its seconds left (1..Delay)
  calls,          \* the handler invocations waiting at an await (a bag)
  issued,         \* how many of them the buttons have started so far
  store,          \* the remote collection
  nextId          \* the identifier the remote store assigns next

editVars == <<isEditing, editingId>>
confirmVars == <<confirmVisible, confirmUserId>>
notifVars == <<message, messageType, showMessage, timers>>
remoteVars == <<store, nextId>>
callVars == <<calls, issued>>
vars ==
  <<users, newUser, isEditing, editingId, message, showMessage, messageType,
    confirmVisible, confirmUserId, timers, calls, issued, store, nextId>>

GetReq == [method |-> "GET", id |-> Null, name |-> "", email |-> ""]
\* a handler invocation: the handler, the await it is at ("mut": its own
\* request, "list": the GET of its fetchUsers()), the request, the response
Call(op, phase, req) == [op |-> op, phase |-> phase, req |-> req, resp |-> NoResp]

Waiting == BagToSet(calls)
\* the remote has not answered the call's request yet
Pending(c) == c.resp = NoResp

\* the handler reaches its first await
Start(c) ==
  /\ issued < MaxRequests
  /\ issued' = issued + 1
  /\ calls' = calls (+) SetToBag({c})

\* the call goes on as d
Becomes(c, d) ==
  /\ calls' = (calls (-) SetToBag({c})) (+) SetToBag({d})
  /\ UNCHANGED issued

\* the handler returns
Finish(c) ==
  /\ calls' = calls (-) SetToBag({c})
  /\ UNCHANGED issued

\* what the remote collection holds when the page loads: two records,
\* the identifiers being any integers, 0 among them
InitialStore ==
  <<[id |-> 0, name |-> "a", email |-> "x"], [id |-> 1, name |-> "a", email |-> "x"]>>

\* onMounted has run: fetchUsers() is waiting for its response
Init ==
  /\ users = << >>
  /\ newUser = EmptyUser
  /\ isEditing = FALSE
  /\ editingId = Null
  /\ message = << >>
  /\ showMessage = FALSE
  /\ messageType = "success"
  /\ confirmVisible = FALSE
  /\ confirmUserId = Null
  /\ timers = {}
  /\ calls = SetToBag({Call("fetch", "list", GetReq)})
  /\ issued = 0
  /\ store = InitialStore
  /\ nextId = Len(InitialStore)

\* ----------------------------------------------------------- showPopup
\* a showPopup that sets no timeout
ShowPopupsNoTimeout(ps) ==
  IF ps = << >> THEN UNCHANGED notifVars
  ELSE /\ message' = ps[Len(ps)].msg
       /\ messageType' = ps[Len(ps)].type
       /\ showMessage' = TRUE
       /\ timers' = timers

\* showPopup(msg, type), for each popup of ps in turn: the latest text and
\* kind stay, and each call leaves a timeout of its own behind (timeouts
\* due at the same second are kept as one: they do the same assignment)
ShowPopups(ps) ==
  IF ps = << >> THEN UNCHANGED notifVars
  ELSE /\ message' = ps[Len(ps)].msg
       /\ messageType' = ps[Len(ps)].type
       /\ showMessage' = TRUE
       /\ timers' = timers \cup {Delay}

\* a second passes, and the timeouts that are due by then run:
\* () => (showMessage.value = false)
Tick ==
  /\ timers # {}
  /\ timers' = {t - 1 : t \in timers} \ {0}
  /\ showMessage' = IF 1 \in timers THEN FALSE ELSE showMessage
  /\ UNCHANGED <<users, newUser, editVars, confirmVars, message, messageType,
                 callVars, remoteVars>>

\* ------------------------------------------------------ the form fields
\* v-model="newUser.name"
SetName(n) ==
  /\ n # newUser.name
  /\ newUser' = [newUser EXCEPT !.name = n]
  /\ UNCHANGED <<users, editVars, confirmVars, notifVars, callVars, remoteVars>>

\* v-model="newUser.email"
SetEmail(e) ==
  /\ e # newUser.email
  /\ newUser' = [newUser EXCEPT !.email = e]
  /\ UNCHANGED <<users, editVars, confirmVars, notifVars, callVars, remoteVars>>

\* ------------------------------------------------------------- addUser
\* the guard with the email forgotten
DraftNameMissing == newUser.name = ""

\* !newUser.value.name || !newUser.value.email
DraftIncomplete == newUser.name = "" \/ newUser.email = ""

\* the body of the POST with the email left out
PostReqNameOnly == [method |-> "POST", id |-> Null, name |-> newUser.name, email |-> ""]

\* JSON.stringify(newUser.value), the identifier being ignored by the store
PostReq == [method |-> "POST", id |-> Null, name |-> newUser.name, email |-> newUser.email]

\* the Add button (shown while not editing), up to the await of fetch()
AddUser ==
  /\ ~isEditing
  /\ IF DraftIncomplete
     THEN /\ ShowPopups(<<[msg |-> MsgFillAll, type |-> "error"]>>)
          /\ UNCHANGED callVars
     ELSE /\ Start(Call("add", "mut", PostReq))
          /\ UNCHANGED notifVars
  /\ UNCHANGED <<users, newUser, editVars, confirmVars, remoteVars>>

\* ------------------------------------------------------------ editUser
EditUser(user) ==
  /\ isEditing' = TRUE
  /\ editingId' = user.id
  /\ newUser' = user
  /\ UNCHANGED <<users, confirmVars, notifVars, callVars, remoteVars>>

\* ---------------------------------------------------------- cancelEdit
\* cancelEdit without the reset of the draft
ExitEditModeKeepsDraft ==
  /\ isEditing' = FALSE
  /\ editingId' = Null
  /\ newUser' = newUser

\* the three assignments of cancelEdit
ExitEditMode ==
  /\ isEditing' = FALSE
  /\ editingId' = Null
  /\ newUser' = EmptyUser

CancelPopup == [msg |-> MsgCancelled, type |-> "error"]

\* the Cancel button (shown while editing)
CancelEdit ==
  /\ isEditing
  /\ ExitEditMode
  /\ ShowPopups(<<CancelPopup>>)
  /\ UNCHANGED <<users, confirmVars, callVars, remoteVars>>

\* ---------------------------------------------------------- updateUser
\* the path built from the identifier of the delete dialog
PutReqConfirmId ==
  [method |-> "PUT", id |-> confirmUserId, name |-> newUser.name, email |-> newUser.email]

\* `${API_URL}${editingId.value}/` with the draft's name and email
PutReq == [method |-> "PUT", id |-> editingId, name |-> newUser.name, email |-> newUser.email]

\* !editingId.value: null and 0 are falsy
NoEditingId == editingId = Null \/ editingId = 0

\* the Update button (shown while editing), up to the await of fetch()
UpdateUser ==
  /\ isEditing
  /\ IF NoEditingId THEN UNCHANGED callVars
     ELSE Start(Call("update", "mut", PutReq))
  /\ UNCHANGED <<users, newUser, editVars, confirmVars, notifVars, remoteVars>>

\* a single-phase delete: the Delete button of a row sends the request at once
OpenConfirmDeletesAtOnce(id) ==
  /\ confirmUserId' = id
  /\ confirmVisible' = TRUE
  /\ issued < MaxRequests
  /\ issued' = issued + 1
  /\ calls' = calls (+) SetToBag({[op |-> "delete", phase |-> "mut", resp |-> NoResp,
                                   req |-> [method |-> "DELETE", id |-> id, name |-> "", email |-> ""]]})
  /\ UNCHANGED <<users, newUser, editVars, notifVars, remoteVars>>

\* ------------------------------------------------- the delete dialog
\* the Delete button of a row
OpenConfirm(id) ==
  /\ confirmUserId' = id
  /\ confirmVisible' = TRUE
  /\ UNCHANGED <<users, newUser, editVars, notifVars, callVars, remoteVars>>

\* the dialog closed with the identifier left behind
ClearConfirmFlagOnly ==
  /\ confirmVisible' = FALSE
  /\ confirmUserId' = confirmUserId

\* the two assignments that close the dialog
ClearConfirm ==
  /\ confirmVisible' = FALSE
  /\ confirmUserId' = Null

CancelDelete ==
  /\ confirmVisible
  /\ ClearConfirm
  /\ UNCHANGED <<users, newUser, editVars, notifVars, callVars, remoteVars>>

\* deleteUser(confirmUserId.value): `${API_URL}${id}/`
DeleteReq == [method |-> "DELETE", id |-> confirmUserId, name |-> "", email |-> ""]

\* the Yes button of the dialog, up to the await of fetch() in deleteUser
ConfirmDelete ==
  /\ confirmVisible
  /\ IF confirmUserId # Null
     THEN Start(Call("delete", "mut", DeleteReq))
     ELSE UNCHANGED callVars
  /\ UNCHANGED <<users, newUser, editVars, confirmVars, notifVars, remoteVars>>

\* ---------------------------------------------------- the remote store
HasId(id) == \E i \in 1..Len(store) : store[i].id = id

RECURSIVE Without(_, _)
Without(list, id) ==
  IF list = << >> THEN << >>
  ELSE IF Head(list).id = id THEN Without(Tail(list), id)
  ELSE <<Head(list)>> \o Without(Tail(list), id)

Replaced(list, id, name, email) ==
  [i \in 1..Len(list) |->
     IF list[i].id = id THEN [id |-> id, name |-> name, email |-> email] ELSE list[i]]

\* the response to a request the store has carried out is on its way
Reply(c, resp) == Becomes(c, [c EXCEPT !.resp = resp])

\* GET <base>: the records, in the store's order
ServeList(c) ==
  /\ Pending(c)
  /\ c.req.method = "GET"
  /\ Reply(c, OkResp(store))
  /\ UNCHANGED <<users, newUser, editVars, confirmVars, notifVars, remoteVars>>

\* POST <base>: a record with the next identifier
ServeCreate(c) ==
  /\ Pending(c)
  /\ c.req.method = "POST"
  /\ c.req.name # "" /\ c.req.email # ""
  /\ store' = Append(store, [id |-> nextId, name |-> c.req.name, email |-> c.req.email])
  /\ nextId' = nextId + 1
  /\ Reply(c, OkResp(<< >>))
  /\ UNCHANGED <<users, newUser, editVars, confirmVars, notifVars>>

\* PUT <base>/<id>/
ServeUpdate(c) ==
  /\ Pending(c)
  /\ c.req.method = "PUT"
  /\ c.req.name # "" /\ c.req.email # ""
  /\ HasId(c.req.id)
  /\ store' = Replaced(store, c.req.id, c.req.name, c.req.email)
  /\ Reply(c, OkResp(<< >>))
  /\ UNCHANGED <<users, newUser, editVars, confirmVars, notifVars, nextId>>

\* DELETE <base>/<id>/
ServeDelete(c) ==
  /\ Pending(c)
  /\ c.req.method = "DELETE"
  /\ HasId(c.req.id)
  /\ store' = Without(store, c.req.id)
  /\ Reply(c, OkResp(<< >>))
  /\ UNCHANGED <<users, newUser, editVars, confirmVars, notifVars, nextId>>

\* how a request can fail without the store carrying it out: fetch()
\* rejects, or a non-success status comes back with one of the error bodies
Failures == {NetFailure} \cup {HttpError(b) : b \in ErrBodies}

\* what the await of the call's fetch() can settle with now: the response on
\* its way, or any failure while the store has not answered
Settles(c) == IF Pending(c) THEN Failures ELSE {c.resp}

\* ------------------------------------------- the handlers' continuations
\* await fetchUsers(): the handler goes on waiting, now for the GET
AwaitFetchUsers(c) == Becomes(c, Call(c.op, "list", GetReq))

\* addUser after the POST settled: the error popup, or fetchUsers()
AddUserResponded(c, resp) ==
  /\ c.op = "add" /\ c.phase = "mut"
  /\ IF resp.kind = "ok"
     THEN /\ AwaitFetchUsers(c)
          /\ UNCHANGED notifVars
     ELSE /\ ShowPopups(<<ErrPopup(ErrTextFlat(resp, FallbackAdd))>>)
          /\ Finish(c)
  /\ UNCHANGED <<users, newUser, editVars, confirmVars, remoteVars>>

\* the catch block of updateUser leaving edit mode
UpdateUserRespondedExits(c, resp) ==
  /\ c.op = "update" /\ c.phase = "mut"
  /\ IF resp.kind = "ok"
     THEN /\ AwaitFetchUsers(c)
          /\ UNCHANGED <<notifVars, newUser, editVars>>
     ELSE /\ ShowPopups(<<ErrPopup(ErrTextFlat(resp, FallbackUpdate))>>)
          /\ ExitEditMode
          /\ Finish(c)
  /\ UNCHANGED <<users, confirmVars, remoteVars>>

\* updateUser after the PUT settled: the error popup, or fetchUsers()
UpdateUserResponded(c, resp) ==
  /\ c.op = "update" /\ c.phase = "mut"
  /\ IF resp.kind = "ok"
     THEN /\ AwaitFetchUsers(c)
          /\ UNCHANGED notifVars
     ELSE /\ ShowPopups(<<ErrPopup(ErrTextFlat(resp, FallbackUpdate))>>)
          /\ Finish(c)
  /\ UNCHANGED <<users, newUser, editVars, confirmVars, remoteVars>>

\* deleteUser after the DELETE settled: fetchUsers(), or the error popup and
\* then the rest of confirmDelete
DeleteUserResponded(c, resp) ==
  /\ c.op = "delete" /\ c.phase = "mut"
  /\ IF resp.kind = "ok"
     THEN /\ AwaitFetchUsers(c)
          /\ UNCHANGED <<notifVars, confirmVars>>
     ELSE /\ ShowPopups(<<ErrPopup(ErrTextDetail(resp, FallbackDelete))>>)
          /\ ClearConfirm
          /\ Finish(c)
  /\ UNCHANGED <<users, newUser, editVars, remoteVars>>

\* a fetchUsers whose catch block shows nothing
FetchPopupsSilent(resp) == << >>

\* what fetchUsers shows when its GET settled: nothing, or the error popup
FetchPopups(resp) ==
  IF resp.kind = "ok" THEN << >>
  ELSE <<ErrPopup(ErrTextDetail(resp, FallbackFetch))>>

\* a failed fetch empties the list
FetchedUsersOrNone(resp) == IF resp.kind = "ok" THEN resp.body ELSE << >>

\* users.value = await res.json(), or the list as it was
FetchedUsers(resp) == IF resp.kind = "ok" THEN resp.body ELSE users

\* fetchUsers of onMounted after its GET settled
FetchUsersSettled(c, resp) ==
  /\ c.op = "fetch"
  /\ users' = FetchedUsers(resp)
  /\ ShowPopups(FetchPopups(resp))
  /\ Finish(c)
  /\ UNCHANGED <<newUser, editVars, confirmVars, remoteVars>>

\* the success popup shown before fetchUsers() is awaited
AddUserFetchedPopupFirst(c, resp) ==
  /\ c.op = "add" /\ c.phase = "list"
  /\ users' = FetchedUsers(resp)
  /\ newUser' = EmptyUser
  /\ ShowPopups(<<OkPopup(MsgAdded)>> \o FetchPopups(resp))
  /\ Finish(c)
  /\ UNCHANGED <<editVars, confirmVars, remoteVars>>

\* addUser after its fetchUsers() returned: the draft is reset, the success popup
AddUserFetched(c, resp) ==
  /\ c.op = "add" /\ c.phase = "list"
  /\ users' = FetchedUsers(resp)
  /\ newUser' = EmptyUser
  /\ ShowPopups(FetchPopups(resp) \o <<OkPopup(MsgAdded)>>)
  /\ Finish(c)
  /\ UNCHANGED <<editVars, confirmVars, remoteVars>>

\* updateUser calling cancelEdit() after its success popup
UpdateUserFetchedCancelLast(c, resp) ==
  /\ c.op = "update" /\ c.phase = "list"
  /\ users' = FetchedUsers(resp)
  /\ ExitEditMode
  /\ ShowPopups(FetchPopups(resp) \o <<OkPopup(MsgUpdated), CancelPopup>>)
  /\ Finish(c)
  /\ UNCHANGED <<confirmVars, remoteVars>>

\* updateUser after its fetchUsers() returned: cancelEdit(), the success popup
UpdateUserFetched(c, resp) ==
  /\ c.op = "update" /\ c.phase = "list"
  /\ users' = FetchedUsers(resp)
  /\ ExitEditMode
  /\ ShowPopups(FetchPopups(resp) \o <<CancelPopup, OkPopup(MsgUpdated)>>)
  /\ Finish(c)
  /\ UNCHANGED <<confirmVars, remoteVars>>

\* deleteUser after its fetchUsers() returned: the success popup, then the
\* rest of confirmDelete
DeleteUserFetched(c, resp) ==
  /\ c.op = "delete" /\ c.phase = "list"
  /\ users' = FetchedUsers(resp)
  /\ ShowPopups(FetchPopups(resp) \o <<OkPopup(MsgDeleted)>>)
  /\ ClearConfirm
  /\ Finish(c)
  /\ UNCHANGED <<newUser, editVars, remoteVars>>

\* ------------------------------------------------------- specification
Rows == {users[i] : i \in 1..Len(users)}

Next ==
  \/ Tick
  \/ \E n \in Names : SetName(n)
  \/ \E e \in Emails : SetEmail(e)
  \/ AddUser
  \/ \E u \in Rows : EditUser(u)
  \/ UpdateUser
  \/ CancelEdit
  \/ \E u \in Rows : OpenConfirm(u.id)
  \/ ConfirmDelete
  \/ CancelDelete
  \/ \E c \in Waiting : ServeList(c)
  \/ \E c \in Waiting : ServeCreate(c)
  \/ \E c \in Waiting : ServeUpdate(c)
  \/ \E c \in Waiting : ServeDelete(c)
  \/ \E c \in Waiting : \E resp \in Settles(c) : FetchUsersSettled(c, resp)
  \/ \E c \in Waiting : \E resp \in Settles(c) : AddUserResponded(c, resp)
  \/ \E c \in Waiting : \E resp \in Settles(c) : AddUserFetched(c, resp)
  \/ \E c \in Waiting : \E resp \in Settles(c) : UpdateUserResponded(c, resp)
  \/ \E c \in Waiting : \E resp \in Settles(c) : UpdateUserFetched(c, resp)
  \/ \E c \in Waiting : \E resp \in Settles(c) : DeleteUserResponded(c, resp)
  \/ \E c \in Waiting : \E resp \in Settles(c) : DeleteUserFetched(c, resp)

Spec == Init /\ [][Next]_vars

\* a timeout that has been set does run: time passes
SpecFair == Spec /\ WF_vars(Tick)

\* ---------------------------------------------------------- properties
\* the requests a step sends: the calls that wait for the remote after the
\* step and did not before it
NewRequests ==
  {c \in BagToSet(calls') : c.resp = NoResp /\ CopiesIn(c, calls') > CopiesIn(c, calls)}

\* the seconds left of the timeout of the latest showPopup: each showPopup
\* sets a timeout of Delay seconds, so the latest one is the one with the
\* most time left
LatestTimeLeft ==
  IF timers = {} THEN 0 ELSE CHOOSE t \in timers : \A u \in timers : u <= t

\* C1: a notification stays visible until the full delay has elapsed since the
\* latest showPopup; the timeout of an earlier showPopup never hides it.
C1_LatestPopupStaysFullDelay == LatestTimeLeft > 0 => showMessage

\* the identifiers the PUT requests on their way go to
PutTargets(bag) == {c.req.id : c \in {d \in BagToSet(bag) : d.req.method = "PUT"}}

\* C2: OpenConfirm issues no request; a DELETE request is issued only by the
\* Yes button and only for the identifier pending at that moment; Cancel issues
\* no request and clears the pending identifier; the pending identifier is only
\* ever set by OpenConfirm.
C2_DeleteIsTwoPhase ==
  [][/\ (\E u \in Rows : OpenConfirm(u.id)) => NewRequests = {}
     /\ calls' # calls =>
          \A c \in NewRequests :
            c.req.method = "DELETE" =>
              /\ confirmVisible
              /\ confirmUserId # Null
              /\ c.req.id = confirmUserId
              /\ NewRequests = {c}
              /\ UNCHANGED <<users, newUser, editVars, confirmVars, notifVars, remoteVars>>
     /\ CancelDelete => (confirmUserId' = Null /\ NewRequests = {})
     /\ (confirmUserId' # confirmUserId /\ confirmUserId' # Null) =>
          (\E u \in Rows : u.id = confirmUserId' /\ confirmVisible' /\ calls' = calls)
    ]_vars

\* a DELETE request is on its way
C2_Witness == \E c \in Waiting : c.req.method = "DELETE" /\ Pending(c)

\* C3: Add with an empty name or an empty email in the draft sends no request,
\* shows an error notification and leaves the draft and the list as they were.
C3_IncompleteDraftNoRequest ==
  [][(AddUser /\ (newUser.name = "" \/ newUser.email = "")) =>
       /\ NewRequests = {}
       /\ calls' = calls
       /\ showMessage' /\ messageType' = "error"
       /\ newUser' = newUser
       /\ users' = users
    ]_vars

\* the popup of the guard is showing over an incomplete draft
C3_Witness ==
  /\ showMessage /\ message = MsgFillAll /\ messageType = "error"
  /\ newUser.name = "a" /\ newUser.email = ""
  /\ users # << >>

\* the steps in which a mutating handler reports success
ReportsSuccess(c, resp) ==
  \/ AddUserFetched(c, resp)
  \/ UpdateUserFetched(c, resp)
  \/ DeleteUserFetched(c, resp)

\* the steps in which the request of a mutating handler has succeeded
MutationSucceeded(c, resp) ==
  /\ resp.kind = "ok"
  /\ \/ AddUserResponded(c, resp)
     \/ UpdateUserResponded(c, resp)
     \/ DeleteUserResponded(c, resp)

\* C4 as stated: when a mutating handler reports success, the list has been
\* replaced by the body of a List response fetched after the mutation.
C4_ListReplacedBeforeSuccess ==
  [][calls' # calls =>
       \A c \in Waiting : \A resp \in Settles(c) :
         ReportsSuccess(c, resp) => (resp.kind = "ok" /\ users' = resp.body)
    ]_vars

\* C4 as amended: a mutating handler whose request succeeded sends one List
\* request and leaves the list alone; when that request settles the list is
\* replaced by the response body if it succeeded and stays as it was if it
\* failed, and the handler then reports success either way; the list never
\* changes other than by becoming the body of a List response.
C4_ListOnlyReplacedByFetch ==
  [][/\ calls' # calls =>
          \A c \in Waiting : \A resp \in Settles(c) :
          /\ MutationSucceeded(c, resp) =>
               (users' = users /\ NewRequests = {Call(c.op, "list", GetReq)})
          /\ ReportsSuccess(c, resp) =>
               /\ users' = IF resp.kind = "ok" THEN resp.body ELSE users
               /\ showMessage' /\ messageType' = "success"
     /\ users' # users =>
          \E c \in Waiting :
            c.phase = "list" /\ c.resp.kind = "ok" /\ users' = c.resp.body
    ]_vars

\* the deletion has been reported while the list still shows the record: the
\* re-fetch failed
C4_Witness ==
  /\ message = MsgDeleted /\ showMessage
  /\ Len(users) > Len(store)
  /\ calls = EmptyBag

\* C5: a non-success status with an absent or unparseable body shows the
\* generic fallback message of the operation.
C5_UnparseableBodyShowsFallback ==
  [][calls' # calls =>
       \A c \in Waiting :
       Pending(c) =>
         LET resp == HttpError(BodyUnparseable) IN
         /\ FetchUsersSettled(c, resp) => message' = Warn \o FallbackFetch
         /\ AddUserResponded(c, resp) => message' = Warn \o FallbackAdd
         /\ UpdateUserResponded(c, resp) => message' = Warn \o FallbackUpdate
         /\ DeleteUserResponded(c, resp) => message' = Warn \o FallbackDelete
    ]_vars

\* C6: a PUT request goes to the identifier that was being edited when Update
\* was clicked, and to no other: a new PUT target appears only by an Update
\* click while editing and is the editing identifier of that moment, and no
\* later step changes where a request on its way goes.
C6_PutTargetsEditingId ==
  [][calls' # calls =>
       /\ PutTargets(calls') \subseteq PutTargets(calls) \cup {editingId}
       /\ \A c \in NewRequests :
            c.req.method = "PUT" =>
              /\ isEditing
              /\ editingId # Null
              /\ c.req.id = editingId
              /\ NewRequests = {c}
              /\ UNCHANGED <<users, newUser, editVars, confirmVars, notifVars, remoteVars>>
    ]_vars

\* a PUT for record 1 is on its way while another record is being edited
C6_Witness ==
  /\ \E c \in Waiting : c.req.method = "PUT" /\ c.req.id = 1
  /\ isEditing /\ editingId = 0

\* C7: right after updateUser has processed its success, the edit flag is
\* false, the editing identifier null and the draft {id:0, name:'', email:''}.
C7_UpdateSuccessClearsEditMode ==
  [][calls' # calls =>
       \A c \in Waiting : \A resp \in Settles(c) :
       UpdateUserFetched(c, resp) =>
         (~isEditing' /\ editingId' = Null /\ newUser' = EmptyUser)
    ]_vars

\* the update has been reported and edit mode is cleared
C7_Witness ==
  /\ message = MsgUpdated /\ showMessage
  /\ ~isEditing /\ editingId = Null /\ newUser = EmptyUser
  /\ calls = EmptyBag

\* C8: the failure of a Create or an Update request changes the notification
\* only: draft, edit flag, editing identifier and list stay as they were.
C8_FailureKeepsDraftAndEditMode ==
  [][calls' # calls =>
       \A c \in Waiting : \A resp \in Settles(c) :
       (resp.kind # "ok" /\ (AddUserResponded(c, resp) \/ UpdateUserResponded(c, resp))) =>
         /\ UNCHANGED <<newUser, isEditing, editingId, users>>
         /\ showMessage' /\ messageType' = "error"
    ]_vars

\* an Update has failed and edit mode is still active with the draft typed
C8_Witness ==
  /\ message = Warn \o <<"already exists">> /\ showMessage
  /\ isEditing /\ editingId = 1
  /\ newUser = [id |-> 1, name |-> "a", email |-> "x"]
  /\ calls = EmptyBag

\* C9: when a Create request succeeds exactly one List request is sent for it,
\* and when addUser finishes the draft is {id:0, name:'', email:''} and the
\* notification showing is of kind success.
C9_CreateSuccess ==
  [][calls' # calls =>
       \A c \in Waiting : \A resp \in Settles(c) :
       /\ (resp.kind = "ok" /\ AddUserResponded(c, resp)) =>
            /\ NewRequests = {Call("add", "list", GetReq)}
            /\ CopiesIn(Call("add", "list", GetReq), calls')
                 = CopiesIn(Call("add", "list", GetReq), calls) + 1
       /\ AddUserFetched(c, resp) =>
            /\ NewRequests = {}
            /\ newUser' = EmptyUser
            /\ showMessage' /\ messageType' = "success" /\ message' = MsgAdded
    ]_vars

\* the creation has been reported, the record is in the list
C9_Witness ==
  /\ message = MsgAdded /\ showMessage /\ messageType = "success"
  /\ newUser = EmptyUser
  /\ Len(users) = Len(InitialStore) + 1
  /\ calls = EmptyBag

\* C10: the edit flag is true iff the editing identifier is set, and the
\* dialog is visible iff the identifier pending deletion is set.
C10_FlagsMatchIdentifiers ==
  /\ isEditing <=> editingId # Null
  /\ confirmVisible <=> confirmUserId # Null

\* both are active while a request is on its way
C10_Witness ==
  /\ isEditing /\ editingId # Null
  /\ confirmVisible /\ confirmUserId # Null
  /\ calls # EmptyBag

\* C11: a List fetch that failed (a non-success status or a transport error)
\* leaves the list as it was and shows a notification of kind error, and
\* changes neither the draft nor the edit nor the confirmation state; the List
\* fetch a mutating handler awaits leaves the list as it was too when it fails.
C11_FailedFetchKeepsList ==
  [][calls' # calls =>
       \A c \in Waiting : \A resp \in Settles(c) :
       resp.kind # "ok" =>
         /\ FetchUsersSettled(c, resp) =>
              /\ users' = users
              /\ showMessage' /\ messageType' = "error"
              /\ message' = Warn \o ErrTextDetail(resp, FallbackFetch)
              /\ UNCHANGED <<newUser, editVars, confirmVars>>
         /\ ReportsSuccess(c, resp) => users' = users
    ]_vars

\* the fetch of the page load has failed under a draft being typed: the list
\* is still the empty one and the draft is still there
C11_Witness ==
  /\ message = Warn \o FallbackFetch /\ showMessage /\ messageType = "error"
  /\ users = << >>
  /\ newUser.name = "a"
  /\ calls = EmptyBag

\* C12: a POST carries the name and the email of the draft, both non-empty; the
\* store keeps them under the identifier it assigns; and when the List fetch
\* of that addUser succeeds, the Create being the only mutating request sent
\* so far, the list shown contains the record the store created: the posted
\* name and email under the store's identifier.
C12_CreatedRecordListed ==
  [][calls' # calls =>
       /\ \A c \in NewRequests :
            c.req.method = "POST" =>
              /\ c.req.name = newUser.name /\ c.req.name # ""
              /\ c.req.email = newUser.email /\ c.req.email # ""
       /\ \A c \in Waiting :
            /\ ServeCreate(c) =>
                 /\ nextId \notin {store[i].id : i \in 1..Len(store)}
                 /\ store'[Len(store')] =
                      [id |-> nextId, name |-> c.req.name, email |-> c.req.email]
            /\ \A resp \in Settles(c) :
                 (AddUserFetched(c, resp) /\ resp.kind = "ok" /\ issued = 1) =>
                   /\ store[Len(store)].id = nextId - 1
                   /\ store[Len(store)].id \notin {InitialStore[i].id : i \in 1..Len(InitialStore)}
                   /\ \E i \in 1..Len(users') : users'[i] = store[Len(store)]
    ]_vars

\* the record the store created is in the list shown, under identifier 2
C12_Witness ==
  /\ \E i \in 1..Len(users) : users[i] = [id |-> 2, name |-> "a", email |-> "x"]
  /\ message = MsgAdded
  /\ issued = 1
  /\ calls = EmptyBag

\* a step in which showPopup was called: the notification state has changed
\* and a timeout with the full delay left is there after it (a Tick leaves
\* less than the full delay on every timeout)
ShowEvent == notifVars' # notifVars /\ Delay \in timers'

\* C13: the notification is visible right after every showPopup, whatever the
\* kind; it becomes visible by a showPopup only; it is not visible once the
\* delay of the latest showPopup has elapsed; and, time passing, every
\* notification is hidden in the end (and so stays hidden until the next
\* showPopup).
C13_ShownThenHidden ==
  /\ [][/\ ShowEvent =>
            (showMessage' /\ messageType' \in {"success", "error"})
       /\ (showMessage' /\ ~showMessage) => ShowEvent]_vars
  /\ [](LatestTimeLeft = 0 => ~showMessage)
  /\ []<>(~showMessage)

\* a success notification has been shown and hidden, with no timeout left
C13_Witness ==
  /\ message = MsgAdded /\ messageType = "success"
  /\ ~showMessage
  /\ timers = {}

\* C14: edit mode for an identifier is left (the flag cleared or the
\* identifier changed) only by Cancel, by an Edit click on a row, or by the
\* success of an Update that was sent for that identifier; no Update is ever
\* sent for an identifier that NoEditingId takes for none, so no updateUser
\* that completes was sent for such an identifier.
C14_EditModeLeftOnlyByOwnUpdate ==
  [][(isEditing /\ (~isEditing' \/ editingId' # editingId)) =>
       \/ CancelEdit
       \/ \E u \in Rows : EditUser(u)
       \/ /\ ~NoEditingId
          /\ \E c \in Waiting : \E resp \in Settles(c) : UpdateUserFetched(c, resp)
    ]_vars

\* C15: the dialog open for an identifier is cleared (closed, or its
\* identifier changed) only by Cancel, by a Delete click on a row, or by the
\* completion of a deleteUser sent for that identifier (of a failed DELETE
\* the identifier is in the request that settles).
C15_DialogClearedOnlyByOwnDelete ==
  [][(confirmVisible /\ (~confirmVisible' \/ confirmUserId' # confirmUserId)) =>
       \/ CancelDelete
       \/ \E u \in Rows : OpenConfirm(u.id)
       \/ \E c \in Waiting : \E resp \in Settles(c) :
            \/ DeleteUserResponded(c, resp) /\ c.req.id = confirmUserId
            \/ DeleteUserFetched(c, resp)
    ]_vars

\* C16: whenever edit mode is active for an identifier, a click on Update
\* sends exactly one PUT, to that identifier, with the name and the email of
\* the draft (as long as the run may send a request at all).
C16_UpdateSendsPutForAnyId ==
  (isEditing /\ editingId # Null /\ issued < MaxRequests) =>
    ENABLED (/\ UpdateUser
             /\ NewRequests = {Call("update", "mut", PutReq)}
             /\ CopiesIn(Call("update", "mut", PutReq), calls')
                  = CopiesIn(Call("update", "mut", PutReq), calls) + 1)

\* C17: when updateUser has finished after a successful PUT, the notification
\* showing is the update-success text with kind success; the cancellation
\* text is of kind error and is put up by a click on Cancel only.
C17_UpdateLeavesSuccessPopup ==
  [][/\ calls' # calls =>
          \A c \in Waiting : \A resp \in Settles(c) :
          UpdateUserFetched(c, resp) =>
            (showMessage' /\ message' = MsgUpdated /\ messageType' = "success")
     /\ (ShowEvent /\ message' = MsgCancelled) =>
          (CancelEdit /\ messageType' = "error")
    ]_vars

\* the update-success notification has just been put up
C17_Witness ==
  /\ showMessage /\ message = MsgUpdated /\ messageType = "success"
  /\ LatestTimeLeft = Delay
  /\ issued = 1

\* the error bodies that parse
ParsedBodies == {b \in ErrBodies : b.parses}

\* Object.values(...).flat().join(', ') || fallback, as a text
FlatText(body, fallback) == OrElse(Join(FlatValues(body.entries)), fallback)

\* C18 as stated: on a Create or Update failure with a body that parses, the
\* notification text is the values of the body, arrays flattened, joined with
\* ", ", or the fallback of the operation when that is empty.
C18_TextIsJoinedValues ==
  [][calls' # calls =>
       \A c \in Waiting : \A b \in ParsedBodies :
       Pending(c) =>
         /\ AddUserResponded(c, HttpError(b)) => message' = FlatText(b, FallbackAdd)
         /\ UpdateUserResponded(c, HttpError(b)) => message' = FlatText(b, FallbackUpdate)
    ]_vars

\* C18 as amended: the notification text is the warning sign and a space,
\* followed by the values of the body, arrays flattened, joined with ", ", or
\* by the fallback of the operation when that is empty: the body
\* {"email": ["already exists"]} gives "(warning) already exists", the body {}
\* gives "(warning) Failed to add user" or "(warning) Failed to update user"
\* (and the values "p", "q" of an array and "r" are joined as "p, q, r").
C18_TextIsWarnThenJoinedValues ==
  [][calls' # calls =>
       /\ Join(FlatValues(<<[key |-> "name", isArr |-> TRUE, strs |-> <<"p", "q">>],
                            [key |-> "email", isArr |-> FALSE, strs |-> <<"r">>]>>))
            = <<"p", ", ", "q", ", ", "r">>
       /\ \A c \in Waiting : \A b \in ParsedBodies :
            Pending(c) =>
              /\ AddUserResponded(c, HttpError(b)) =>
                   /\ message' = Warn \o FlatText(b, FallbackAdd)
                   /\ b = BodyFieldErrors => message' = <<"(warning) ", "already exists">>
                   /\ b = BodyEmptyObject => message' = <<"(warning) ", "Failed to add user">>
                   /\ messageType' = "error" /\ showMessage'
              /\ UpdateUserResponded(c, HttpError(b)) =>
                   /\ message' = Warn \o FlatText(b, FallbackUpdate)
                   /\ b = BodyFieldErrors => message' = <<"(warning) ", "already exists">>
                   /\ b = BodyEmptyObject => message' = <<"(warning) ", "Failed to update user">>
                   /\ messageType' = "error" /\ showMessage'
    ]_vars

\* a Create has failed with the body {"email": ["already exists"]}
C18_Witness ==
  /\ message = <<"(warning) ", "already exists">> /\ showMessage
  /\ ~isEditing
  /\ newUser.name = "a" /\ newUser.email = "x"
  /\ issued = 1 /\ calls = EmptyBag

\* C19: while edit mode is active the draft carries the identifier that is
\* being edited.
C19_DraftBelongsToEditedRecord == isEditing => newUser.id = editingId

\* C20: a List response that arrives last, over a list on display that is the
\* store's content, leaves the list on display the store's content: a
\* response produced before a mutation and delivered after the response of
\* the fetch that followed the mutation does not bring the old list back.
C20_NoStaleListWhenQuiet ==
  [][calls' # calls =>
       \A c \in Waiting : \A resp \in Settles(c) :
       (/\ resp.kind = "ok"
        /\ users = store
        /\ calls' = EmptyBag
        /\ \/ FetchUsersSettled(c, resp)
           \/ ReportsSuccess(c, resp)) => users' = store'
    ]_vars

====
